---- MODULE Spec2Model ----
(***************************************************************************)
(* Model of program_director: the PlaylistAgent (agent.py), the ErsatzTV   *)
(* client (ersatztv_client.py) and the remote smart-collection store the   *)
(* client talks to.                                                        *)
(*                                                                         *)
(* Strings are sequences of one-character strings, so that slicing         *)
(* (name[:50]), splitting (title.split(" (")), replacing and joining are   *)
(* computed as Python computes them.                                       *)
(*                                                                         *)
(* The model's response text is a sequence of lexemes: the two brace       *)
(* characters, a brace-free chunk of other text, or one "key": value       *)
(* member of a JSON object (with its separating comma).  str.find and      *)
(* str.rfind only look for braces, so positions in the lexeme sequence     *)
(* keep the order of the character positions they stand for.               *)
(***************************************************************************)
EXTENDS Integers, Sequences, FiniteSets, TLC

VARIABLES
    themes,     \* config.themes: the configured theme names, in order
    remote,     \* the ErsatzTV server's smart collections, in listing order
    nextId,     \* the id the server gives the next collection it creates
    pc,         \* "idle" | "loop" (inside generate_all_themes) | "returned" | "raised"
    idx,        \* generate_all_themes: position in config.themes
    results,    \* generate_all_themes: the local list `results`
    hist,       \* one record per apply_playlist call made so far
    shown,      \* collection names printed to the console, in order
    gen,        \* the most recent generate_playlist call: its input and outcome
    ops,        \* number of top-level calls made so far
    built,      \* the most recent create_smart_collection_query call on its own
    cli,        \* the generate command's options and the credentials it finds
    exit        \* the process exit code of the generate command, -1 while it runs

vars == <<themes, remote, nextId, pc, idx, results, hist, shown, gen, ops, built, cli, exit>>

(***************************************************************************)
(* Bounds                                                                  *)
(***************************************************************************)
MaxThemes == 2
MaxOps == 2
MaxLex == 4
MaxNoise == 1
MaxTitles == 1

(***************************************************************************)
(* Program constants                                                       *)
(***************************************************************************)
NameLimit == 50

Min(a, b) == IF a < b THEN a ELSE b

(***************************************************************************)
(* Python string helpers                                                   *)
(***************************************************************************)
\* s[:n]
PrefixOf(s, n) == SubSeq(s, 1, Min(Len(s), n))

\* s.find(pat) as a 1-based position, 0 when pat does not occur
IndexOf(s, pat) ==
    LET hits == {i \in 1..(Len(s) - Len(pat) + 1) : SubSeq(s, i, i + Len(pat) - 1) = pat}
    IN  IF hits = {} THEN 0 ELSE CHOOSE i \in hits : \A j \in hits : i <= j

\* s.replace('"', '\\"')
RECURSIVE EscapeQuotes(_)
EscapeQuotes(s) ==
    IF s = <<>> THEN <<>>
    ELSE (IF Head(s) = "\"" THEN <<"\\", "\"">> ELSE <<Head(s)>>) \o EscapeQuotes(Tail(s))

\* sep.join(parts)
RECURSIVE Join(_, _)
Join(parts, sep) ==
    IF parts = <<>> THEN <<>>
    ELSE IF Len(parts) = 1 THEN parts[1]
    ELSE parts[1] \o sep \o Join(Tail(parts), sep)

SpaceParen == <<" ", "(">>
OrSep == <<" ", "O", "R", " ">>
TitleContains == <<"t", "i", "t", "l", "e", " ", "c", "o", "n", "t", "a", "i", "n", "s", " ", "\"">>

(***************************************************************************)
(* PlaylistAgent.create_smart_collection_query                             *)
(***************************************************************************)
\* title.split(" (")[0] if " (" in title else title
CleanTitle(title) ==
    LET i == IndexOf(title, SpaceParen)
    IN  IF i # 0 THEN SubSeq(title, 1, i - 1) ELSE title

\* f'title contains "{escaped_title}"'
Condition(title) == TitleContains \o EscapeQuotes(title) \o <<"\"">>

FlattenTitles(suggestion) ==
    [i \in 1..Len(suggestion.selected_movies) |-> CleanTitle(suggestion.selected_movies[i])]
    \o suggestion.selected_shows
    \o suggestion.selected_anime

create_smart_collection_query(suggestion) ==
    LET titles == FlattenTitles(suggestion)
        conditions == [i \in 1..Len(titles) |-> Condition(titles[i])]
    IN  IF conditions # <<>> THEN Join(conditions, OrSep) ELSE <<>>

(***************************************************************************)
(* JSON values and the lexemes of a model response                         *)
(***************************************************************************)
\* A JSON value: a string, a list of strings, an integer, or anything else
\* (null, an object, a fractional number), which fits no field of the schema.
StrVal(s) == [type |-> "str", s |-> s, l |-> <<>>, n |-> 0]
ListVal(l) == [type |-> "list", s |-> <<>>, l |-> l, n |-> 0]
IntVal(n) == [type |-> "int", s |-> <<>>, l |-> <<>>, n |-> n]
OtherVal == [type |-> "other", s |-> <<>>, l |-> <<>>, n |-> 0]

LBrace == [kind |-> "lbrace", key |-> "", val |-> OtherVal]
RBrace == [kind |-> "rbrace", key |-> "", val |-> OtherVal]
Text == [kind |-> "text", key |-> "", val |-> OtherVal]
Member(k, v) == [kind |-> "member", key |-> k, val |-> v]

\* content.find("{"): 0-based position of the first "{", -1 when there is none
FindLBrace(content) ==
    LET hits == {i \in 1..Len(content) : content[i].kind = "lbrace"}
    IN  IF hits = {} THEN -1 ELSE (CHOOSE i \in hits : \A j \in hits : i <= j) - 1

\* RFindRBrace using find instead of rfind: the first "}"
RFindRBrace_First(content) ==
    LET hits == {i \in 1..Len(content) : content[i].kind = "rbrace"}
    IN  IF hits = {} THEN -1 ELSE (CHOOSE i \in hits : \A j \in hits : i <= j) - 1

\* content.rfind("}"): 0-based position of the last "}", -1 when there is none
RFindRBrace(content) ==
    LET hits == {i \in 1..Len(content) : content[i].kind = "rbrace"}
    IN  IF hits = {} THEN -1 ELSE (CHOOSE i \in hits : \A j \in hits : i >= j) - 1

\* content[a:b] for 0 <= a
PySlice(content, a, b) == SubSeq(content, a + 1, Min(b, Len(content)))

\* json.loads on a text that starts at a "{": a dict when the text is one
\* object (a brace, members, a brace), an exception otherwise.  The dict is kept
\* as the member sequence; a repeated key takes its last value.
JsonLoads(text) ==
    LET wellFormed ==
            /\ Len(text) >= 2
            /\ text[1].kind = "lbrace"
            /\ text[Len(text)].kind = "rbrace"
            /\ \A i \in 2..(Len(text) - 1) : text[i].kind = "member"
    IN  [ok |-> wellFormed,
         data |-> IF wellFormed THEN SubSeq(text, 2, Len(text) - 1) ELSE <<>>]

Has(data, k) == \E i \in 1..Len(data) : data[i].key = k

Get(data, k) ==
    LET i == CHOOSE i \in 1..Len(data) :
                 /\ data[i].key = k
                 /\ \A j \in 1..Len(data) : data[j].key = k => j <= i
    IN  data[i].val

(***************************************************************************)
(* PlaylistSuggestion                                                      *)
(***************************************************************************)
EmptySuggestion ==
    [theme_name |-> <<>>, collection_name |-> <<>>,
     selected_movies |-> <<>>, selected_shows |-> <<>>, selected_anime |-> <<>>,
     reasoning |-> <<>>, estimated_runtime |-> 0]

\* a field declared with Field(description=...) only: no default, so required
RequiredField(data, k, type) == Has(data, k) /\ Get(data, k).type = type

\* a field declared with default= or default_factory=
DefaultedField(data, k, type) == Has(data, k) => Get(data, k).type = type

\* PlaylistSuggestion(**data): pydantic validation; keys the schema does not
\* name are ignored
ValidationOk(data) ==
    /\ RequiredField(data, "theme_name", "str")
    /\ RequiredField(data, "collection_name", "str")
    /\ DefaultedField(data, "selected_movies", "list")
    /\ DefaultedField(data, "selected_shows", "list")
    /\ DefaultedField(data, "selected_anime", "list")
    /\ DefaultedField(data, "reasoning", "str")
    /\ DefaultedField(data, "estimated_runtime", "int")

PlaylistSuggestion(data) ==
    [theme_name |-> Get(data, "theme_name").s,
     collection_name |-> Get(data, "collection_name").s,
     selected_movies |->
        IF Has(data, "selected_movies") THEN Get(data, "selected_movies").l ELSE <<>>,
     selected_shows |->
        IF Has(data, "selected_shows") THEN Get(data, "selected_shows").l ELSE <<>>,
     selected_anime |->
        IF Has(data, "selected_anime") THEN Get(data, "selected_anime").l ELSE <<>>,
     reasoning |-> IF Has(data, "reasoning") THEN Get(data, "reasoning").s ELSE <<>>,
     estimated_runtime |->
        IF Has(data, "estimated_runtime") THEN Get(data, "estimated_runtime").n ELSE 0]

(***************************************************************************)
(* PlaylistAgent.generate_playlist                                         *)
(***************************************************************************)
\* What a call gives its caller: a suggestion, None, or an exception.
Suggested(s) == [kind |-> "suggestion", value |-> s]
NoSuggestion == [kind |-> "none", value |-> EmptySuggestion]
Raised == [kind |-> "raised", value |-> EmptySuggestion]

\* json_start != -1 and json_end > json_start
CanSlice(json_start, json_end) == json_start # -1 /\ json_end > json_start

\* json.loads(json_str) then PlaylistSuggestion(**data); either may raise
DecodeAndValidate(json_str) ==
    LET decoded == JsonLoads(json_str)
    IN  IF decoded.ok /\ ValidationOk(decoded.data)
        THEN Suggested(PlaylistSuggestion(decoded.data))
        ELSE Raised

\* the body of `if isinstance(content, str):`
ParseContent(content) ==
    LET json_start == FindLBrace(content)
        json_end == RFindRBrace(content) + 1
    IN  IF CanSlice(json_start, json_end)
        THEN DecodeAndValidate(PySlice(content, json_start, json_end))
        ELSE NoSuggestion

\* the body of the try block.  llm.outcome: "raises" (llm.invoke raises),
\* "nonstr" (response.content is not a str), "text" (it is llm.content)
TryBody(llm) ==
    IF llm.outcome = "raises" THEN Raised
    ELSE IF llm.outcome = "nonstr" THEN NoSuggestion
    ELSE ParseContent(llm.content)

\* ExceptHandler that lets the exception through
ExceptHandler_Propagates(r) == r

\* except Exception: print, return None
ExceptHandler(r) == IF r.kind = "raised" THEN NoSuggestion ELSE r

\* What the MediaLibrary calls ahead of the try block can do.
CatalogOutcomes == {"ok", "summary_raises", "stats_raises"}

\* catalog: what get_media_summary / get_genre_stats do in this call
generate_playlist(catalog, llm) ==
    IF catalog # "ok" THEN Raised ELSE ExceptHandler(TryBody(llm))

(***************************************************************************)
(* The remote smart-collection service and ErsatzTVClient                  *)
(***************************************************************************)
SmartCollection(id, name, query) == [id |-> id, name |-> name, query |-> query]

\* One remote call, as the client sent it; ok is whether the server answered
\* with a success status and a JSON body.
ListCall(ok) == [op |-> "list", id |-> 0, name |-> <<>>, query |-> <<>>, ok |-> ok]
CreateCall(name, query) ==
    [op |-> "create", id |-> 0, name |-> name, query |-> query, ok |-> TRUE]
UpdateCall(id, name, query) ==
    [op |-> "update", id |-> id, name |-> name, query |-> query, ok |-> TRUE]

\* The service's side of POST /api/collections/smart/new
ServerCreate(rem, nid, name, query) == Append(rem, SmartCollection(nid, name, query))

\* The service's side of PUT /api/collections/smart/{id}
ServerUpdate(rem, id, name, query) ==
    [i \in 1..Len(rem) |-> IF rem[i].id = id THEN SmartCollection(id, name, query) ELSE rem[i]]

\* create_smart_collection / update_smart_collection: one request; an error
\* status raises inside the client, which prints it and returns None.
\* st is [remote, nextId, calls, result]; result is "collection" or "none".
SendWrite(st, req, ok) ==
    LET sent == [req EXCEPT !.ok = ok]
    IN  IF ~ok
        THEN [st EXCEPT !.calls = Append(@, sent), !.result = "none"]
        ELSE IF req.op = "create"
        THEN [remote |-> ServerCreate(st.remote, st.nextId, req.name, req.query),
              nextId |-> st.nextId + 1,
              calls |-> Append(st.calls, sent),
              result |-> "collection"]
        ELSE [st EXCEPT !.remote = ServerUpdate(@, req.id, req.name, req.query),
                        !.calls = Append(@, sent),
                        !.result = "collection"]

RECURSIVE SendWrites(_, _, _)
SendWrites(st, reqs, ok) ==
    IF reqs = <<>> THEN st ELSE SendWrites(SendWrite(st, Head(reqs), ok), Tail(reqs), ok)

(***************************************************************************)
(* PlaylistAgent.apply_playlist                                            *)
(***************************************************************************)
\* QueryIsEmpty with the early return lost
QueryIsEmpty_Never(query) == FALSE

\* if not query
QueryIsEmpty(query) == query = <<>>

\* TruncateName with the slice forgotten
TruncateName_Whole(name) == name

\* TruncateName that keeps one character more
TruncateName_OneMore(name) == PrefixOf(name, NameLimit + 1)

\* suggestion.collection_name[:50]
TruncateName(name) == PrefixOf(name, NameLimit)

\* NameExists that never finds the name
NameExists_Never(existing, name) == FALSE

\* collection_name in existing_names
NameExists(existing, name) == \E i \in 1..Len(existing) : existing[i].name = name

\* existing_names[collection_name], where existing_names = {c.name: c.id for c
\* in existing}: of several collections with one name the dict keeps the last
ExistingId(existing, name) ==
    LET i == CHOOSE i \in 1..Len(existing) :
                 /\ existing[i].name = name
                 /\ \A j \in 1..Len(existing) : existing[j].name = name => j <= i
    IN  existing[i].id

\* Reconcile without the lookup: every call creates
Reconcile_AlwaysCreate(existing, collection_name, query) ==
    <<CreateCall(collection_name, query)>>

\* Reconcile with the else lost: an update is followed by a create
Reconcile_Both(existing, collection_name, query) ==
    IF \E i \in 1..Len(existing) : existing[i].name = collection_name
    THEN <<UpdateCall((CHOOSE i \in 1..Len(existing) : existing[i].name = collection_name),
                      collection_name, query),
           CreateCall(collection_name, query)>>
    ELSE <<CreateCall(collection_name, query)>>

\* the if/else that picks the write
Reconcile(existing, collection_name, query) ==
    IF NameExists(existing, collection_name)
    THEN <<UpdateCall(ExistingId(existing, collection_name), collection_name, query)>>
    ELSE <<CreateCall(collection_name, query)>>

\* One call: [ret, calls, remote, nextId].  listOk / writeOk: whether the
\* service answers the list and the write request with success.
apply_playlist(suggestion, rem, nid, listOk, writeOk) ==
    LET query == create_smart_collection_query(suggestion)
        start == [remote |-> rem, nextId |-> nid, calls |-> <<>>, result |-> "none"]
    IN  IF QueryIsEmpty(query)
        THEN [ret |-> FALSE, calls |-> <<>>, remote |-> rem, nextId |-> nid]
        ELSE LET collection_name == TruncateName(suggestion.collection_name)
                 listed == [start EXCEPT !.calls = <<ListCall(listOk)>>]
             IN  IF ~listOk
                 THEN [ret |-> FALSE, calls |-> listed.calls, remote |-> rem, nextId |-> nid]
                 ELSE LET done == SendWrites(listed, Reconcile(rem, collection_name, query), writeOk)
                      IN  [ret |-> done.result # "none", calls |-> done.calls,
                           remote |-> done.remote, nextId |-> done.nextId]

\* what hist keeps of a call
ApplyRecord(suggestion, rem, r) ==
    [suggestion |-> suggestion, pre |-> rem, calls |-> r.calls, ret |-> r.ret]

(***************************************************************************)
(* PlaylistAgent.generate_and_apply                                        *)
(***************************************************************************)
\* a result record whose success flag follows the suggestion, not the apply
ResultRecord_SuccessWhenSuggested(theme, success, suggestion, applied) ==
    [theme |-> theme, success |-> suggestion.kind = "suggestion",
     suggestion |-> suggestion, applied |-> applied]

ResultRecord(theme, success, suggestion, applied) ==
    [theme |-> theme, success |-> success, suggestion |-> suggestion, applied |-> applied]

\* One call.  outcome is "returned" or "raised"; applies holds the record of
\* the apply_playlist call it made, if it made one; printed the collection
\* names it printed.
generate_and_apply(theme, catalog, llm, rem, nid, listOk, writeOk) ==
    LET g == generate_playlist(catalog, llm)
        a == apply_playlist(g.value, rem, nid, listOk, writeOk)
    IN  IF g.kind = "raised"
        THEN [outcome |-> "raised", gen |-> g,
              result |-> ResultRecord(theme, FALSE, NoSuggestion, FALSE),
              applies |-> <<>>, printed |-> <<>>, remote |-> rem, nextId |-> nid]
        ELSE IF g.kind = "suggestion"
        THEN [outcome |-> "returned", gen |-> g,
              result |-> ResultRecord(theme, a.ret, g, a.ret),
              applies |-> <<ApplyRecord(g.value, rem, a)>>,
              printed |-> <<g.value.collection_name>>,
              remote |-> a.remote, nextId |-> a.nextId]
        ELSE [outcome |-> "returned", gen |-> g,
              result |-> ResultRecord(theme, FALSE, NoSuggestion, FALSE),
              applies |-> <<>>, printed |-> <<>>, remote |-> rem, nextId |-> nid]

(***************************************************************************)
(* Data of the runs explored                                               *)
(***************************************************************************)
ThemeNames == <<"Action", "Horror", "Comedy", "Drama">>

\* config.themes: the first n theme names, in either order
ThemeLists ==
    UNION {{[i \in 1..n |-> ThemeNames[i]], [i \in 1..n |-> ThemeNames[n + 1 - i]]} :
              n \in 1..Min(MaxThemes, Len(ThemeNames))}

ActionNight == <<"A", "c", "t", "i", "o", "n", " ", "N", "i", "g", "h", "t">>
\* two names of 62 characters that differ only after the 50th
LongNameA == [i \in 1..62 |-> IF i <= NameLimit THEN "n" ELSE "x"]
LongNameB == [i \in 1..62 |-> IF i <= NameLimit THEN "n" ELSE "y"]

MadMax1980 == <<"M", "a", "d", " ", "M", "a", "x", " ", "(", "1", "9", "8", "0", ")">>
MadMax == <<"M", "a", "d", " ", "M", "a", "x">>
Bebop == <<"B", "e", "b", "o", "p">>
Quoted == <<"A", "\"", "B">>
ActionTheme == <<"A", "c", "t", "i", "o", "n">>

MakeSuggestion(name, movies, shows, anime) ==
    [theme_name |-> ActionTheme, collection_name |-> name,
     selected_movies |-> movies, selected_shows |-> shows, selected_anime |-> anime,
     reasoning |-> <<"r">>, estimated_runtime |-> 120]

SAction == MakeSuggestion(ActionNight, <<MadMax1980>>, <<>>, <<>>)
SEmpty == MakeSuggestion(ActionNight, <<>>, <<>>, <<>>)
SLongA == MakeSuggestion(LongNameA, <<>>, <<Bebop>>, <<>>)
SLongB == MakeSuggestion(LongNameB, <<MadMax1980>>, <<>>, <<Quoted>>)

Suggestions == {SAction, SEmpty, SLongA, SLongB}

\* the JSON text of a suggestion, every field present
ToJson(s) ==
    <<LBrace,
      Member("theme_name", StrVal(s.theme_name)),
      Member("collection_name", StrVal(s.collection_name)),
      Member("selected_movies", ListVal(s.selected_movies)),
      Member("selected_shows", ListVal(s.selected_shows)),
      Member("selected_anime", ListVal(s.selected_anime)),
      Member("reasoning", StrVal(s.reasoning)),
      Member("estimated_runtime", IntVal(s.estimated_runtime)),
      RBrace>>

LlmRaises == [outcome |-> "raises", content |-> <<>>]
LlmNonStr == [outcome |-> "nonstr", content |-> <<>>]
LlmText(content) == [outcome |-> "text", content |-> content]

\* {"collection_name":"Action Night","selected_movies":["Mad Max (1980)"]}
ScenarioText ==
    <<LBrace,
      Member("collection_name", StrVal(ActionNight)),
      Member("selected_movies", ListVal(<<MadMax1980>>)),
      RBrace>>

\* what the model answers in the runs of SpecRun
Responses ==
    {LlmRaises, LlmText(ScenarioText), LlmText(<<Text>> \o ToJson(SAction) \o <<Text>>),
     LlmText(ToJson(SEmpty)), LlmText(ToJson(SLongA)), LlmText(ToJson(SLongB))}

OldQuery == <<"q">>

\* what the service holds when the program starts
InitialRemotes ==
    {<<>>,
     <<SmartCollection(4, ActionNight, OldQuery)>>,
     <<SmartCollection(4, ActionNight, OldQuery), SmartCollection(7, ActionNight, OldQuery)>>,
     <<SmartCollection(4, LongNameA, OldQuery)>>,
     <<SmartCollection(4, TruncateName(LongNameA), OldQuery)>>}

\* the service numbers a new collection after the ones it holds
FreshId(rem) ==
    IF rem = <<>> THEN 1
    ELSE 1 + (CHOOSE m \in {rem[i].id : i \in 1..Len(rem)} :
                 \A i \in 1..Len(rem) : rem[i].id <= m)

\* no create_smart_collection_query call of its own yet
NotBuilt == [called |-> FALSE, suggestion |-> EmptySuggestion, titles |-> <<>>, query |-> <<>>]

\* the agent used without the command line
NoCli == [theme |-> "", all_themes |-> FALSE, dry_run |-> FALSE,
          radarr_key |-> TRUE, sonarr_key |-> TRUE]

NotCalled == [called |-> FALSE, catalog |-> "ok", llm |-> LlmNonStr, result |-> NoSuggestion]
Called(catalog, llm, result) ==
    [called |-> TRUE, catalog |-> catalog, llm |-> llm, result |-> result]

(***************************************************************************)
(* Spec: a client of the agent calling apply_playlist, up to MaxOps times  *)
(***************************************************************************)
Init ==
    /\ themes = [i \in 1..Min(MaxThemes, Len(ThemeNames)) |-> ThemeNames[i]]
    /\ remote \in InitialRemotes
    /\ nextId = FreshId(remote)
    /\ pc = "idle"
    /\ idx = 0
    /\ results = <<>>
    /\ hist = <<>>
    /\ shown = <<>>
    /\ gen = NotCalled
    /\ ops = 0
    /\ built = NotBuilt
    /\ cli = NoCli
    /\ exit = -1

\* agent.apply_playlist(suggestion)
ApplyPlaylistCall ==
    /\ pc = "idle"
    /\ ops < MaxOps
    /\ \E s \in Suggestions, listOk \in BOOLEAN, writeOk \in BOOLEAN :
        LET r == apply_playlist(s, remote, nextId, listOk, writeOk)
        IN  /\ hist' = Append(hist, ApplyRecord(s, remote, r))
            /\ remote' = r.remote
            /\ nextId' = r.nextId
    /\ ops' = ops + 1
    /\ UNCHANGED <<built, cli, exit, themes, pc, idx, results, shown, gen>>

Next == ApplyPlaylistCall

Spec == Init /\ [][Next]_vars

(***************************************************************************)
(* SpecRun: one run of the generate command, for one theme or through      *)
(* generate_all_themes                                                     *)
(***************************************************************************)
InitRun ==
    /\ themes \in ThemeLists
    /\ remote \in InitialRemotes
    /\ nextId = FreshId(remote)
    /\ pc = "idle"
    /\ idx = 0
    /\ results = <<>>
    /\ hist = <<>>
    /\ shown = <<>>
    /\ gen = NotCalled
    /\ ops = 0
    /\ built = NotBuilt
    /\ cli = NoCli
    /\ exit = -1

\* cli.generate --theme T [--dry-run]: generate, print, apply unless dry_run
CliGenerateTheme ==
    /\ pc = "idle"
    /\ \E i \in 1..Len(themes), dry_run \in BOOLEAN, catalog \in CatalogOutcomes,
          llm \in Responses, listOk \in BOOLEAN, writeOk \in BOOLEAN :
        LET g == generate_playlist(catalog, llm)
            r == apply_playlist(g.value, remote, nextId, listOk, writeOk)
        IN  /\ gen' = Called(catalog, llm, g)
            /\ IF g.kind = "raised"
               THEN pc' = "raised" /\ UNCHANGED <<shown, hist, remote, nextId>>
               ELSE /\ pc' = "exited"
                    /\ IF g.kind = "none"
                       THEN UNCHANGED <<shown, hist, remote, nextId>>
                       ELSE /\ shown' = Append(shown, g.value.collection_name)
                            /\ IF dry_run
                               THEN UNCHANGED <<hist, remote, nextId>>
                               ELSE /\ hist' = Append(hist, ApplyRecord(g.value, remote, r))
                                    /\ remote' = r.remote
                                    /\ nextId' = r.nextId
    /\ ops' = ops + 1
    /\ UNCHANGED <<built, cli, exit, themes, idx, results>>

\* generate_all_themes: results = []
GenerateAllThemesStart ==
    /\ pc = "idle"
    /\ pc' = "loop"
    /\ idx' = 1
    /\ results' = <<>>
    /\ ops' = ops + 1
    /\ UNCHANGED <<built, cli, exit, themes, remote, nextId, hist, shown, gen>>

\* one turn of `for theme in self.config.themes`
GenerateAllThemesStep ==
    /\ pc = "loop"
    /\ idx <= Len(themes)
    /\ \E catalog \in CatalogOutcomes, llm \in Responses,
          listOk \in BOOLEAN, writeOk \in BOOLEAN :
        LET r == generate_and_apply(themes[idx], catalog, llm, remote, nextId, listOk, writeOk)
        IN  /\ gen' = Called(catalog, llm, r.gen)
            /\ hist' = hist \o r.applies
            /\ shown' = shown \o r.printed
            /\ remote' = r.remote
            /\ nextId' = r.nextId
            /\ IF r.outcome = "raised"
               THEN pc' = "raised" /\ UNCHANGED <<idx, results>>
               ELSE /\ results' = Append(results, r.result)
                    /\ idx' = idx + 1
                    /\ UNCHANGED pc
    /\ UNCHANGED <<built, cli, exit, themes, ops>>

\* return results
GenerateAllThemesReturn ==
    /\ pc = "loop"
    /\ idx > Len(themes)
    /\ pc' = "returned"
    /\ UNCHANGED <<built, cli, exit, themes, remote, nextId, idx, results, hist, shown, gen, ops>>

NextRun ==
    \/ CliGenerateTheme
    \/ GenerateAllThemesStart
    \/ GenerateAllThemesStep
    \/ GenerateAllThemesReturn

SpecRun == InitRun /\ [][NextRun]_vars

(***************************************************************************)
(* SpecParse: generate_playlist applied to one model response              *)
(***************************************************************************)
FullSuggestion == MakeSuggestion(ActionNight, <<MadMax1980>>, <<Bebop>>, <<Quoted>>)

\* the members of a response that names every field, and one key the schema
\* does not know
FullMembers == SubSeq(ToJson(FullSuggestion), 2, 8) \o <<Member("extra", OtherVal)>>

MemberKeys == {FullMembers[i].key : i \in 1..Len(FullMembers)}

\* a well-formed object holding the members with the given keys
ObjectOf(keys) ==
    <<LBrace>> \o SelectSeq(FullMembers, LAMBDA m : m.key \in keys) \o <<RBrace>>

ObjectTexts == {ObjectOf(keys) : keys \in SUBSET MemberKeys}

\* a member of the wrong type for its field
BadRuntime == Member("estimated_runtime", OtherVal)

Lexemes ==
    {LBrace, RBrace, Text, BadRuntime,
     Member("theme_name", StrVal(ActionTheme)),
     Member("collection_name", StrVal(ActionNight))}

ShortTexts == UNION {[1..n -> Lexemes] : n \in 0..MaxLex}

Noise == UNION {[1..n -> {LBrace, RBrace, Text}] : n \in 0..MaxNoise}

\* an object with other text before and after it
SurroundedTexts ==
    {pre \o obj \o post :
        pre \in Noise, post \in Noise,
        obj \in {ToJson(SAction), ScenarioText, <<LBrace, BadRuntime, RBrace>>}}

ParseInputs ==
    {LlmRaises, LlmNonStr}
    \cup {LlmText(c) : c \in ShortTexts \cup ObjectTexts \cup SurroundedTexts}

InitParse ==
    /\ themes = <<ThemeNames[1]>>
    /\ remote = <<>>
    /\ nextId = FreshId(remote)
    /\ pc = "pending"
    /\ idx = 0
    /\ results = <<>>
    /\ hist = <<>>
    /\ shown = <<>>
    /\ \E catalog \in CatalogOutcomes, llm \in ParseInputs :
           gen = [called |-> FALSE, catalog |-> catalog, llm |-> llm, result |-> NoSuggestion]
    /\ ops = 0
    /\ built = NotBuilt
    /\ cli = NoCli
    /\ exit = -1

\* agent.generate_playlist(theme)
GeneratePlaylistCall ==
    /\ pc = "pending"
    /\ gen' = Called(gen.catalog, gen.llm, generate_playlist(gen.catalog, gen.llm))
    /\ pc' = "called"
    /\ ops' = ops + 1
    /\ UNCHANGED <<built, cli, exit, themes, remote, nextId, idx, results, hist, shown>>

NextParse == GeneratePlaylistCall

SpecParse == InitParse /\ [][NextParse]_vars

(***************************************************************************)
(* Properties                                                              *)
(***************************************************************************)
HasTitles(s) ==
    Len(s.selected_movies) + Len(s.selected_shows) + Len(s.selected_anime) > 0

AllAnswered(calls) == \A i \in 1..Len(calls) : calls[i].ok

Reads(calls) == SelectSeq(calls, LAMBDA c : c.op = "list")
Writes(calls) == SelectSeq(calls, LAMBDA c : c.op \in {"create", "update"})

\* sent is the first NameLimit characters of name
IsTruncationOf(sent, name) ==
    /\ Len(sent) = (IF Len(name) < NameLimit THEN Len(name) ELSE NameLimit)
    /\ \A i \in 1..Len(sent) : sent[i] = name[i]

\* the service's collections after the k-th apply_playlist call of Spec
RemoteAfter(k) == IF k = Len(hist) THEN remote ELSE hist[k + 1].pre

C7_OneReadEveryCall ==
    \A k \in 1..Len(hist) :
        /\ Len(Reads(hist[k].calls)) = 1
        /\ Len(Writes(hist[k].calls)) <= 1

\* C7, amended: an apply_playlist call whose suggestion has at least one title
\* makes exactly one list request and at most one write request (one create or
\* one update), whatever the service answers; a call whose suggestion has no
\* title makes no request.
C7_OneReadWhenTitles ==
    \A k \in 1..Len(hist) :
        IF HasTitles(hist[k].suggestion)
        THEN /\ Len(Reads(hist[k].calls)) = 1
             /\ Len(Writes(hist[k].calls)) <= 1
             /\ hist[k].calls[1].op = "list"
        ELSE hist[k].calls = <<>>

C7_Witness ==
    /\ Len(hist) = 2
    /\ HasTitles(hist[1].suggestion)
    /\ Len(Writes(hist[1].calls)) = 1
    /\ ~hist[1].calls[2].ok
    /\ ~HasTitles(hist[2].suggestion)

\* C10: in every apply_playlist call with titles whose list request is
\* answered, the write is an update exactly when some listed collection is
\* named as the first 50 characters of the suggested name, that update carries
\* the id of a listed collection of that name, and otherwise the write is a
\* create under that name.
C10_UpdateIffListed ==
    \A k \in 1..Len(hist) :
        LET h == hist[k]
            carriers == {i \in 1..Len(h.pre) :
                            IsTruncationOf(h.pre[i].name, h.suggestion.collection_name)}
        IN  (HasTitles(h.suggestion) /\ h.calls # <<>> /\ h.calls[1].ok)
            => /\ Len(h.calls) = 2
               /\ IsTruncationOf(h.calls[2].name, h.suggestion.collection_name)
               /\ h.calls[2].op = (IF carriers # {} THEN "update" ELSE "create")
               /\ carriers # {} => \E i \in carriers : h.pre[i].id = h.calls[2].id

C10_Witness ==
    /\ Len(hist) = 2
    /\ hist[1].suggestion = SLongA
    /\ Len(hist[1].pre) = 1
    /\ hist[1].pre[1].name = LongNameA
    /\ hist[1].ret
    /\ hist[1].calls[2].op = "create"
    /\ hist[2].suggestion = SLongB
    /\ hist[2].ret
    /\ hist[2].calls[2].op = "update"

(***************************************************************************)
(* Properties of a run of the generate command (SpecRun)                   *)
(***************************************************************************)
Last(s) == s[Len(s)]

InAllThemes == idx >= 1

\* the service's collections when the run started
RemoteAtStart == IF hist = <<>> THEN remote ELSE hist[1].pre

\* sub occurs in s
Contains(s, sub) ==
    \E i \in 1..(Len(s) - Len(sub) + 1) : SubSeq(s, i, i + Len(sub) - 1) = sub

\* the collection_name the model's response gives
NameInResponse(llm) ==
    LET i == CHOOSE i \in 1..Len(llm.content) :
                 llm.content[i].kind = "member" /\ llm.content[i].key = "collection_name"
    IN  llm.content[i].val.s

\* C2: generate_all_themes lets no exception out, whichever step of whichever
\* theme fails, and returns one result record per configured theme, in
\* configuration order.
C2_NoExceptionCrossesTheme ==
    InAllThemes =>
        /\ pc # "raised"
        /\ pc = "returned" =>
              /\ Len(results) = Len(themes)
              /\ \A i \in 1..Len(themes) : results[i].theme = themes[i]

\* C4: when the first theme of generate_all_themes runs against an empty
\* service and the model answers
\* {"collection_name":"Action Night","selected_movies":["Mad Max (1980)"]},
\* apply_playlist is called and, its list request answered, it sends a create
\* for "Action Night" whose query holds title contains "Mad Max".
C4_ScenarioCreates ==
    (/\ InAllThemes
     /\ idx = 2
     /\ gen.catalog = "ok"
     /\ gen.llm = LlmText(ScenarioText)
     /\ RemoteAtStart = <<>>)
    => /\ Len(hist) = 1
       /\ hist[1].calls # <<>>
       /\ hist[1].calls[1].ok =>
             /\ Len(hist[1].calls) = 2
             /\ hist[1].calls[2].op = "create"
             /\ hist[1].calls[2].name = ActionNight
             /\ Contains(hist[1].calls[2].query, TitleContains \o MadMax \o <<"\"">>)

\* C8: when generate_and_apply gets a suggestion whose three title lists are
\* empty, apply_playlist makes no request and returns False, and the result
\* record holds the suggestion with applied false; when it gets no suggestion
\* the record holds none.
C8_EmptySelectionNotApplied ==
    (InAllThemes /\ idx >= 2 /\ pc # "raised") =>
        LET rec == results[idx - 1]
        IN  /\ gen.result.kind = "none" =>
                  /\ rec.suggestion.kind = "none"
                  /\ ~rec.applied
            /\ (gen.result.kind = "suggestion" /\ ~HasTitles(gen.result.value)) =>
                  /\ rec.suggestion.kind = "suggestion"
                  /\ rec.suggestion.value = gen.result.value
                  /\ ~rec.applied
                  /\ ~rec.success
                  /\ hist # <<>>
                  /\ Last(hist).suggestion = gen.result.value
                  /\ Last(hist).calls = <<>>
                  /\ ~Last(hist).ret
                  /\ remote = Last(hist).pre

C8_Witness ==
    /\ pc = "returned"
    /\ Len(results) = 2
    /\ results[1].suggestion.kind = "suggestion"
    /\ ~HasTitles(results[1].suggestion.value)
    /\ ~results[1].applied
    /\ results[2].suggestion.kind = "none"
    /\ hist[1].calls = <<>>

\* C9: every create or update request carries exactly the first 50 characters
\* of the suggested collection name, while the name printed for the suggestion
\* (also in a dry run) and the name in the result record are the name the model
\* gave, whole.
C9_TruncatedOnlyInRequests ==
    /\ \A k \in 1..Len(hist) :
          \A i \in 1..Len(hist[k].calls) :
              hist[k].calls[i].op \in {"create", "update"} =>
                  /\ IsTruncationOf(hist[k].calls[i].name, hist[k].suggestion.collection_name)
                  /\ Len(hist[k].calls[i].name) <= NameLimit
    /\ (gen.called /\ gen.result.kind = "suggestion") =>
          /\ shown # <<>>
          /\ Last(shown) = NameInResponse(gen.llm)
          /\ InAllThemes =>
                Last(results).suggestion.value.collection_name = NameInResponse(gen.llm)

C9_Witness ==
    /\ pc = "returned"
    /\ Len(hist) = 1
    /\ Len(Last(results).suggestion.value.collection_name) = 62
    /\ Len(Last(shown)) = 62
    /\ Len(hist[1].calls) = 2
    /\ hist[1].calls[2].ok
    /\ Len(hist[1].calls[2].name) = NameLimit
    /\ Len(Last(remote).name) = NameLimit

\* a dry run printed a name longer than any request may carry
C9_PreviewReached ==
    /\ pc = "exited"
    /\ hist = <<>>
    /\ shown = <<LongNameA>>

(***************************************************************************)
(* Properties of generate_playlist on one response (SpecParse)             *)
(***************************************************************************)
Parsed == pc = "called" /\ gen.catalog = "ok" /\ gen.llm.outcome = "text"

\* the type the schema gives each field
FieldType ==
    [theme_name |-> "str", collection_name |-> "str", selected_movies |-> "list",
     selected_shows |-> "list", selected_anime |-> "list", reasoning |-> "str",
     estimated_runtime |-> "int"]

\* text is one JSON object and nothing else
IsObject(text) ==
    /\ Len(text) >= 2
    /\ text[1].kind = "lbrace"
    /\ text[Len(text)].kind = "rbrace"
    /\ \A i \in 2..(Len(text) - 1) : text[i].kind = "member"

\* every member of the object that names a field of the schema has its type
WellShaped(text) ==
    \A i \in 2..(Len(text) - 1) :
        text[i].key \in DOMAIN FieldType => text[i].val.type = FieldType[text[i].key]

Names(text, k) == \E i \in 2..(Len(text) - 1) : text[i].key = k

\* C3: a response that is one well-formed JSON object whose members fit the
\* schema gives a suggestion whichever fields it leaves out, an omitted title
\* list being empty, omitted reasoning the empty string and an omitted
\* estimated runtime 0.
C3_OmittedFieldsDefault ==
    (Parsed /\ IsObject(gen.llm.content) /\ WellShaped(gen.llm.content)) =>
        LET text == gen.llm.content
            s == gen.result.value
        IN  /\ gen.result.kind = "suggestion"
            /\ ~Names(text, "selected_movies") => s.selected_movies = <<>>
            /\ ~Names(text, "selected_shows") => s.selected_shows = <<>>
            /\ ~Names(text, "selected_anime") => s.selected_anime = <<>>
            /\ ~Names(text, "reasoning") => s.reasoning = <<>>
            /\ ~Names(text, "estimated_runtime") => s.estimated_runtime = 0

\* the positions of the braces of a text
LBraces(text) == {i \in 1..Len(text) : text[i].kind = "lbrace"}
RBraces(text) == {i \in 1..Len(text) : text[i].kind = "rbrace"}

\* text from its first "{" to its last "}" is no JSON object that fits the
\* schema: decoding it or validating it fails
SliceUnusable(text) ==
    \E a \in LBraces(text), b \in RBraces(text) :
        /\ \A i \in LBraces(text) : a <= i
        /\ \A j \in RBraces(text) : j <= b
        /\ a < b
        /\ \/ \E i \in (a + 1)..(b - 1) : text[i].kind # "member"
           \/ ~(\E i \in (a + 1)..(b - 1) : text[i].key = "theme_name" /\ text[i].val.type = "str")
           \/ ~(\E i \in (a + 1)..(b - 1) : text[i].key = "collection_name" /\ text[i].val.type = "str")
           \/ \E i \in (a + 1)..(b - 1) :
                 /\ text[i].kind = "member"
                 /\ text[i].key \in DOMAIN FieldType
                 /\ text[i].val.type # FieldType[text[i].key]
                 /\ \A j \in (i + 1)..(b - 1) : text[j].key # text[i].key

\* C5: with the catalog read, generate_playlist never raises, and returns None
\* when llm.invoke raises, when the text has no "{" or no "}", when its last
\* "}" comes before its first "{", and when the slice between them fails to
\* decode or to validate.
C5_FailuresGiveNone ==
    (pc = "called" /\ gen.catalog = "ok") =>
        /\ gen.result.kind # "raised"
        /\ gen.llm.outcome = "raises" => gen.result.kind = "none"
        /\ gen.llm.outcome = "text" =>
              LET text == gen.llm.content
              IN  /\ LBraces(text) = {} => gen.result.kind = "none"
                  /\ RBraces(text) = {} => gen.result.kind = "none"
                  /\ (\A i \in LBraces(text), j \in RBraces(text) : j < i) =>
                        gen.result.kind = "none"
                  /\ SliceUnusable(text) => gen.result.kind = "none"

C5_Witness ==
    /\ Parsed
    /\ Len(gen.llm.content) = 3
    /\ gen.llm.content[1].kind = "rbrace"
    /\ gen.llm.content[2].kind = "text"
    /\ gen.llm.content[3].kind = "lbrace"
    /\ gen.result.kind = "none"

\* the objects a text holds: the stretches of it that are one JSON object
ObjectsIn(text) ==
    {ij \in (1..Len(text)) \X (1..Len(text)) :
        ij[1] < ij[2] /\ IsObject(SubSeq(text, ij[1], ij[2]))}

\* what decoding and validating the object alone gives: a suggestion or None
Direct(obj) ==
    IF WellShaped(obj) /\ Names(obj, "theme_name") /\ Names(obj, "collection_name")
    THEN Suggested(PlaylistSuggestion(SubSeq(obj, 2, Len(obj) - 1)))
    ELSE NoSuggestion

\* C6 as claimed: a text that holds exactly one well-formed JSON object, with
\* any other text before and after it, parses to what the object alone gives.
C6_AnySurroundingText ==
    Parsed =>
        \A ij \in ObjectsIn(gen.llm.content) :
            ObjectsIn(gen.llm.content) = {ij} =>
                gen.result = Direct(SubSeq(gen.llm.content, ij[1], ij[2]))

\* C6, amended: a text that holds exactly one well-formed JSON object, with no
\* "{" in the text before it and no "}" in the text after it, parses to what
\* the object alone gives.
C6_BraceFreeSurroundings ==
    Parsed =>
        \A ij \in ObjectsIn(gen.llm.content) :
            (/\ ObjectsIn(gen.llm.content) = {ij}
             /\ \A i \in LBraces(gen.llm.content) : i >= ij[1]
             /\ \A j \in RBraces(gen.llm.content) : j <= ij[2])
            => gen.result = Direct(SubSeq(gen.llm.content, ij[1], ij[2]))

C6_Witness ==
    /\ Parsed
    /\ gen.llm.content = <<RBrace>> \o ToJson(SAction) \o <<LBrace>>
    /\ gen.result = Suggested(SAction)


(***************************************************************************)
(* C11 (SpecRun)                                                           *)
(***************************************************************************)
\* the generate_and_apply call that produced the newest result record
NewestResultCall ==
    InAllThemes /\ Len(results) >= 1 /\ gen.called /\ gen.result.kind # "raised"

\* C11: in every result record returned by generate_and_apply, success equals
\* applied, applied implies the suggestion is present, a record without a
\* suggestion has applied and success false, and theme is the name of the
\* theme processed; success is true exactly when a suggestion was generated
\* and the apply_playlist call made for it returned true.
C11_SuccessIffApplied ==
    /\ \A i \in 1..Len(results) :
          /\ results[i].success = results[i].applied
          /\ results[i].applied => results[i].suggestion.kind = "suggestion"
          /\ results[i].suggestion.kind = "none" =>
                ~results[i].applied /\ ~results[i].success
          /\ results[i].theme = themes[i]
    /\ NewestResultCall =>
          /\ Last(results).suggestion = gen.result
          /\ Last(results).success <=>
                /\ gen.result.kind = "suggestion"
                /\ Len(hist) >= 1
                /\ Last(hist).suggestion = gen.result.value
                /\ Last(hist).ret

\* a run that returned one record with success, and one with a suggestion
\* that was not applied
C11_Witness ==
    /\ pc = "returned"
    /\ \E i, j \in 1..Len(results) :
          /\ results[i].success /\ results[i].applied
          /\ results[j].suggestion.kind = "suggestion" /\ ~results[j].applied

(***************************************************************************)
(* SpecQuery: create_smart_collection_query applied to one suggestion      *)
(***************************************************************************)
\* "A (B) (1980)": a title that has a parenthetical of its own before the year
Parenthetical1980 == <<"A", " ", "(", "B", ")", " ", "(", "1", "9", "8", "0", ")">>
\* a title that ends in a backslash
Backslashed == <<"A", "\\">>

TitlePool == {MadMax1980, MadMax, Bebop, Quoted, Parenthetical1980, Backslashed}

\* the lists of up to MaxTitles titles
TitleLists == UNION {[1..n -> TitlePool] : n \in 0..MaxTitles}

QueryInputs ==
    {MakeSuggestion(ActionNight, movies, shows, anime) :
        movies \in TitleLists, shows \in TitleLists, anime \in TitleLists}

InitQuery ==
    /\ themes = <<>>
    /\ remote = <<>>
    /\ nextId = FreshId(remote)
    /\ pc = "pending"
    /\ idx = 0
    /\ results = <<>>
    /\ hist = <<>>
    /\ shown = <<>>
    /\ gen = NotCalled
    /\ ops = 0
    /\ built \in {[NotBuilt EXCEPT !.suggestion = s] : s \in QueryInputs}
    /\ cli = NoCli
    /\ exit = -1

\* agent.create_smart_collection_query(suggestion)
CreateQueryCall ==
    /\ pc = "pending"
    /\ built' = [called |-> TRUE, suggestion |-> built.suggestion,
                 titles |-> FlattenTitles(built.suggestion),
                 query |-> create_smart_collection_query(built.suggestion)]
    /\ pc' = "called"
    /\ UNCHANGED <<cli, exit, themes, remote, nextId, idx, results, hist, shown, gen, ops>>

NextQuery == CreateQueryCall

SpecQuery == InitQuery /\ [][NextQuery]_vars

(***************************************************************************)
(* C12 (SpecQuery)                                                         *)
(***************************************************************************)
Digits == {"0", "1", "2", "3", "4", "5", "6", "7", "8", "9"}

\* title is some T followed by the seven characters " (YYYY)"
HasYearSuffix(title) ==
    /\ Len(title) >= 7
    /\ LET n == Len(title)
       IN  /\ title[n - 6] = " " /\ title[n - 5] = "(" /\ title[n] = ")"
           /\ \A i \in (n - 4)..(n - 1) : title[i] \in Digits

\* the T of a title T (YYYY)
BeforeYear(title) == SubSeq(title, 1, Len(title) - 7)

NoParenthetical(title) == \A i \in 1..Len(title) : title[i] # "("

\* C12: the titles used in the payload are the movies, then the shows, then
\* the anime, each in the model's order; a movie title T (YYYY) is reduced to
\* exactly T, a movie title without a parenthetical is unchanged, and show and
\* anime titles are used verbatim.
C12_TitlesFlattened ==
    built.called =>
        LET s == built.suggestion
            nm == Len(s.selected_movies)
            ns == Len(s.selected_shows)
            na == Len(s.selected_anime)
        IN  /\ Len(built.titles) = nm + ns + na
            /\ \A i \in 1..nm :
                 /\ HasYearSuffix(s.selected_movies[i]) =>
                       built.titles[i] = BeforeYear(s.selected_movies[i])
                 /\ NoParenthetical(s.selected_movies[i]) =>
                       built.titles[i] = s.selected_movies[i]
            /\ \A i \in 1..ns : built.titles[nm + i] = s.selected_shows[i]
            /\ \A i \in 1..na : built.titles[nm + ns + i] = s.selected_anime[i]

(***************************************************************************)
(* C13 (SpecQuery)                                                         *)
(***************************************************************************)
\* s starts with pre
StartsWith(s, pre) == Len(s) >= Len(pre) /\ SubSeq(s, 1, Len(pre)) = pre

\* the position in s of the double quote that closes a clause opened just
\* before position 1: the first double quote not preceded by a backslash; 0
\* when there is none
ClosingQuote(s) ==
    LET hits == {i \in 1..Len(s) : s[i] = "\"" /\ (i = 1 \/ s[i - 1] # "\\")}
    IN  IF hits = {} THEN 0 ELSE CHOOSE i \in hits : \A j \in hits : i <= j

\* the title an escaped text stands for: each backslash-quote pair is a quote
RECURSIVE UnescapeQuotes(_)
UnescapeQuotes(s) ==
    IF s = <<>> THEN <<>>
    ELSE IF Len(s) >= 2 /\ s[1] = "\\" /\ s[2] = "\""
    THEN <<"\"">> \o UnescapeQuotes(SubSeq(s, 3, Len(s)))
    ELSE <<Head(s)>> \o UnescapeQuotes(Tail(s))

Malformed == [ok |-> FALSE, titles |-> <<>>]

\* Reads a non-empty query as an OR-chain of title contains "..." clauses,
\* where a double quote preceded by a backslash belongs to the title; gives
\* the titles of the clauses, or Malformed when the text is no such chain.
RECURSIVE ReadOrChain(_)
ReadOrChain(q) ==
    IF ~StartsWith(q, TitleContains) THEN Malformed
    ELSE LET body == SubSeq(q, Len(TitleContains) + 1, Len(q))
             close == ClosingQuote(body)
             title == UnescapeQuotes(SubSeq(body, 1, close - 1))
             rest == SubSeq(body, close + 1, Len(body))
         IN  IF close = 0 THEN Malformed
             ELSE IF rest = <<>> THEN [ok |-> TRUE, titles |-> <<title>>]
             ELSE IF ~StartsWith(rest, OrSep) THEN Malformed
             ELSE LET more == ReadOrChain(SubSeq(rest, Len(OrSep) + 1, Len(rest)))
                  IN  IF more.ok THEN [ok |-> TRUE, titles |-> <<title>> \o more.titles]
                      ELSE Malformed

\* C13: the query is the clauses title contains "<t>", one per flattened title
\* and in order, joined by " OR ", with every double quote of a title escaped
\* by a backslash, so that the query reads as a valid OR-chain of exactly those
\* clauses; the query is empty exactly when the title list is empty.
C13_QueryIsOrChain ==
    built.called =>
        /\ built.query = <<>> <=> built.titles = <<>>
        /\ built.titles # <<>> =>
             /\ ReadOrChain(built.query).ok
             /\ ReadOrChain(built.query).titles = built.titles

(***************************************************************************)
(* SpecCli: one run of the generate command of cli.py, from its options    *)
(* to its exit code                                                        *)
(***************************************************************************)
\* the --theme values tried: not given, a configured name, an unknown name
ThemeOptions == {"", ThemeNames[1], "Musical"}

CliOptions ==
    [theme : ThemeOptions, all_themes : BOOLEAN, dry_run : BOOLEAN,
     radarr_key : BOOLEAN, sonarr_key : BOOLEAN]

\* config.themes of a run, the empty list included
CliThemeLists == ThemeLists \cup {<<>>}

CliRemotes == {<<>>, <<SmartCollection(4, ActionNight, OldQuery)>>}

\* ConfigProblem that looks at the themes only
ConfigProblem_ThemesOnly(config_themes, options) == config_themes = <<>>

\* not config.themes, or not config.radarr.api_key or not config.sonarr.api_key
ConfigProblem(config_themes, options) ==
    \/ config_themes = <<>>
    \/ ~options.radarr_key \/ ~options.sonarr_key

\* next((t for t in config.themes if t.name == theme), None) is not None
ThemeFound(config_themes, theme) ==
    \E i \in 1..Len(config_themes) : config_themes[i] = theme

\* ShouldApply that ignores dry_run
ShouldApply_Always(dry_run) == TRUE

\* if not dry_run: agent.apply_playlist(suggestion)
ShouldApply(dry_run) == ~dry_run

InitCli ==
    /\ themes \in CliThemeLists
    /\ remote \in CliRemotes
    /\ nextId = FreshId(remote)
    /\ pc = "start"
    /\ idx = 0
    /\ results = <<>>
    /\ hist = <<>>
    /\ shown = <<>>
    /\ gen = NotCalled
    /\ ops = 0
    /\ built = NotBuilt
    /\ cli \in CliOptions
    /\ exit = -1

\* load_config, the two configuration checks, PlaylistAgent(config)
CliCheckConfig ==
    /\ pc = "start"
    /\ IF ConfigProblem(themes, cli)
       THEN pc' = "exited" /\ exit' = 1
       ELSE pc' = "agent" /\ UNCHANGED exit
    /\ UNCHANGED <<built, cli, themes, remote, nextId, idx, results, hist, shown, gen, ops>>

\* if all_themes: (if dry_run: ... else: generate_all_themes()) elif theme: ...
\* else: raise typer.Exit(1)
CliDispatch ==
    /\ pc = "agent"
    /\ IF cli.all_themes
       THEN /\ pc' = IF cli.dry_run THEN "preview" ELSE "loop"
            /\ idx' = 1
            /\ results' = <<>>
            /\ UNCHANGED exit
       ELSE IF cli.theme # "" /\ ThemeFound(themes, cli.theme)
       THEN pc' = "single" /\ UNCHANGED <<idx, results, exit>>
       ELSE pc' = "exited" /\ exit' = 1 /\ UNCHANGED <<idx, results>>
    /\ UNCHANGED <<built, cli, themes, remote, nextId, hist, shown, gen, ops>>

\* one turn of the dry-run loop `for theme_config in config.themes`
CliPreviewStep ==
    /\ pc = "preview"
    /\ idx <= Len(themes)
    /\ \E catalog \in CatalogOutcomes, llm \in Responses :
        LET g == generate_playlist(catalog, llm)
        IN  /\ gen' = Called(catalog, llm, g)
            /\ IF g.kind = "raised"
               THEN pc' = "raised" /\ UNCHANGED <<idx, shown>>
               ELSE /\ idx' = idx + 1
                    /\ shown' = IF g.kind = "suggestion"
                                THEN Append(shown, g.value.collection_name)
                                ELSE shown
                    /\ UNCHANGED pc
    /\ UNCHANGED <<built, cli, exit, themes, remote, nextId, results, hist, ops>>

\* the dry-run loop is over: finally agent.close(), the command returns
CliPreviewEnd ==
    /\ pc = "preview"
    /\ idx > Len(themes)
    /\ pc' = "exited"
    /\ exit' = 0
    /\ UNCHANGED <<built, cli, themes, remote, nextId, idx, results, hist, shown, gen, ops>>

\* for result in results: print SUCCESS or FAILED; the command returns
CliReportResults ==
    /\ pc = "returned"
    /\ pc' = "exited"
    /\ exit' = 0
    /\ UNCHANGED <<built, cli, themes, remote, nextId, idx, results, hist, shown, gen, ops>>

\* the single-theme branch once the theme is found: generate, print, apply
\* unless dry_run; the command returns
CliSingleTheme ==
    /\ pc = "single"
    /\ \E catalog \in CatalogOutcomes, llm \in Responses,
          listOk \in BOOLEAN, writeOk \in BOOLEAN :
        LET g == generate_playlist(catalog, llm)
            r == apply_playlist(g.value, remote, nextId, listOk, writeOk)
        IN  /\ gen' = Called(catalog, llm, g)
            /\ IF g.kind = "raised"
               THEN pc' = "raised" /\ UNCHANGED <<exit, shown, hist, remote, nextId>>
               ELSE /\ pc' = "exited"
                    /\ exit' = 0
                    /\ IF g.kind = "none"
                       THEN UNCHANGED <<shown, hist, remote, nextId>>
                       ELSE /\ shown' = Append(shown, g.value.collection_name)
                            /\ IF ShouldApply(cli.dry_run)
                               THEN /\ hist' = Append(hist, ApplyRecord(g.value, remote, r))
                                    /\ remote' = r.remote
                                    /\ nextId' = r.nextId
                               ELSE UNCHANGED <<hist, remote, nextId>>
    /\ UNCHANGED <<built, cli, themes, idx, results, ops>>

\* an exception leaves generate(): finally agent.close(), and the interpreter
\* ends the process with exit code 1
CliUncaught ==
    /\ pc = "raised"
    /\ pc' = "crashed"
    /\ exit' = 1
    /\ UNCHANGED <<built, cli, themes, remote, nextId, idx, results, hist, shown, gen, ops>>

NextCli ==
    \/ CliCheckConfig
    \/ CliDispatch
    \/ CliPreviewStep
    \/ CliPreviewEnd
    \/ GenerateAllThemesStep
    \/ GenerateAllThemesReturn
    \/ CliReportResults
    \/ CliSingleTheme
    \/ CliUncaught

SpecCli == InitCli /\ [][NextCli]_vars

(***************************************************************************)
(* C14 (SpecCli)                                                           *)
(***************************************************************************)
Ended == exit # -1

NoThemes == themes = <<>>
MissingCredentials == ~cli.radarr_key \/ ~cli.sonarr_key

\* the options select no theme at all, or a theme the configuration lacks
NoMode == ~cli.all_themes /\ cli.theme = ""
UnknownTheme ==
    ~cli.all_themes /\ cli.theme # "" /\ \A i \in 1..Len(themes) : themes[i] # cli.theme

\* a read of the media catalog raised out of generate_playlist
CatalogReadRaised == gen.called /\ gen.catalog # "ok" /\ gen.result.kind = "raised"

NewestSuggested == gen.called /\ gen.result.kind = "suggestion"

\* C15: with dry_run set, in the single-theme and in the all-themes flow, no
\* request at all goes to the remote collection service, whatever the theme
\* and the model's response, and the remote collection set is left unchanged;
\* with dry_run not set, apply_playlist is called for every suggestion that is
\* generated.
C15_DryRunSkipsWrite ==
    /\ [](cli.dry_run => hist = <<>>)
    /\ [][cli.dry_run => remote' = remote /\ nextId' = nextId]_vars
    /\ []((~cli.dry_run /\ NewestSuggested) =>
            /\ Len(hist) = Len(shown)
            /\ Len(hist) >= 1
            /\ Last(hist).suggestion = gen.result.value)

\* a dry run over two themes that printed two suggestions with titles, and
\* ended
C15_Witness ==
    /\ cli.dry_run /\ cli.all_themes
    /\ pc = "exited"
    /\ Len(themes) = 2
    /\ Len(shown) = 2
    /\ NewestSuggested /\ HasTitles(gen.result.value)
    /\ hist = <<>>

(***************************************************************************)
(* C16 (Spec)                                                              *)
(***************************************************************************)
\* the collections of rem that carry the name
Named(rem, name) == {i \in 1..Len(rem) : rem[i].name = name}

\* a and b are collection names that differ, but only after the 50th character
CollideByTruncation(a, b) ==
    /\ a # b
    /\ Len(a) > 50 /\ Len(b) > 50
    /\ SubSeq(a, 1, 50) = SubSeq(b, 1, 50)

\* calls k and k + 1 applied two suggestions with titles whose names collide,
\* the first against a remote set without the truncated name
CollidingPair(k) ==
    /\ k + 1 <= Len(hist)
    /\ CollideByTruncation(hist[k].suggestion.collection_name,
                           hist[k + 1].suggestion.collection_name)
    /\ HasTitles(hist[k].suggestion) /\ HasTitles(hist[k + 1].suggestion)
    /\ Named(hist[k].pre, SubSeq(hist[k].suggestion.collection_name, 1, 50)) = {}

\* C16: two suggestions whose collection names differ only after the 50th
\* character reconcile to one remote collection: once the first is applied
\* to a remote set without the truncated name (a create), applying the second
\* issues an update of the collection just created, its query replaced by the
\* second suggestion's, and the remote set never holds two collections of
\* that name.
C16_TruncatedNamesCollide ==
    \A k \in 1..Len(hist) :
        CollidingPair(k) =>
            LET a == hist[k]
                b == hist[k + 1]
                name == SubSeq(a.suggestion.collection_name, 1, 50)
                after == RemoteAfter(k + 1)
            IN  /\ Cardinality(Named(b.pre, name)) <= 1
                /\ Cardinality(Named(after, name)) <= 1
                /\ (a.ret /\ b.ret) =>
                     /\ Len(Writes(a.calls)) = 1
                     /\ Writes(a.calls)[1].op = "create"
                     /\ Writes(a.calls)[1].name = name
                     /\ Len(b.pre) = Len(a.pre) + 1
                     /\ Len(Writes(b.calls)) = 1
                     /\ Writes(b.calls)[1].op = "update"
                     /\ \E i \in Named(b.pre, name) :
                          /\ Writes(b.calls)[1].id = b.pre[i].id
                          /\ b.pre[i].query = Writes(a.calls)[1].query
                          /\ after[i].id = b.pre[i].id
                          /\ after[i].query = Writes(b.calls)[1].query
                          /\ after[i].query # b.pre[i].query
                     /\ Len(after) = Len(b.pre)

\* both suggestions applied, the first against an empty remote set
C16_Witness ==
    /\ Len(hist) = 2
    /\ CollidingPair(1)
    /\ hist[1].pre = <<>>
    /\ hist[1].ret /\ hist[2].ret
    /\ Len(remote) = 1

====
